---------------------------- MODULE Spec2Model ----------------------------
(***************************************************************************)
(* A model of exercises/advanced_errors/advanced_errs2.rs: the parser      *)
(* Climate::from_str, its error type ParseClimateError, the two From       *)
(* conversions used by the ? operator and the Display rendering.           *)
(*                                                                         *)
(* Text is a sequence of one-character strings.  A u32 is a pair of 16-bit *)
(* limbs <<hi, lo>> (value hi * 2^16 + lo), so that the 32-bit width and   *)
(* checked arithmetic of the integer conversion are kept.  An f32 is its   *)
(* class (nan, inf, zero, finite), its sign and, when finite, the decimal  *)
(* value the text denotes: overflow to infinity and underflow to zero are  *)
(* decided exactly, the rounding of a finite value to 24 bits is not       *)
(* modelled.                                                               *)
(***************************************************************************)
EXTENDS Integers, Sequences, FiniteSets, TLC

VARIABLES s, pc, result, again, msg, cause

vars == <<s, pc, result, again, msg, cause>>

-----------------------------------------------------------------------------
(* Bounds and the input texts                                              *)

\* every text over Alphabet of at most MaxLen characters is an input
MaxLen == 5

Alphabet == {",", "a", "1", ".", "-"}

ShortTexts == UNION { [1..n -> Alphabet] : n \in 0..MaxLen }

\* longer texts: every "city,year,temp" line over these fields, and a few
\* lines with another number of fields
CityTexts ==
  { <<>>,
    <<"a">>,
    <<"C", "i", "t", "y">>,
    <<"H", "o", "n", "g", " ", "K", "o", "n", "g">> }

YearTexts ==
  { <<"1", "9", "9", "9">>,
    <<"n", "i", "n", "e", "t", "e", "e", "n">>,
    <<"2", "5", ".", "7">>,
    <<" ", "1", "9", "9", "9">>,
    <<"1", "9", "9", "9", " ">>,
    <<>>,
    <<"-", "1">>,
    <<"+", "1", "9", "9", "9">>,
    <<"+">>,
    <<"-">>,
    <<"0", "0", "4", "2">>,
    <<"4", "2", "9", "4", "9", "6", "7", "2", "9", "5">>,
    <<"4", "2", "9", "4", "9", "6", "7", "2", "9", "6">>,
    <<"9", "9", "9", "9", "9", "9", "9", "9", "9", "9", "9">>,
    <<"4", "2", "9", "4", "9", "6", "7", "x">> }

TempTexts ==
  { <<"2", "5", ".", "7">>,
    <<"h", "o", "t">>,
    <<"1", "9", "9", "9">>,
    <<>>,
    <<"n", "a", "n">>,
    <<"N", "a", "N">>,
    <<"-", "n", "a", "n">>,
    <<"i", "n", "f">>,
    <<"-", "i", "n", "f">>,
    <<"i", "n", "f", "i", "n", "i", "t", "y">>,
    <<"1", "e", "5">>,
    <<"1", "E", "2">>,
    <<"1", "e", "+", "2">>,
    <<"1", "e">>,
    <<"e", "5">>,
    <<".">>,
    <<".", "5">>,
    <<"5", ".">>,
    <<"+">>,
    <<"-", "0">>,
    <<" ", "1">>,
    <<"4", "e", "3", "8">>,
    <<"3", "e", "3", "8">>,
    <<"1", "e", "-", "4", "6">>,
    <<"7", "e", "-", "4", "6">>,
    <<"8", "e", "-", "4", "6">> }

OtherTexts ==
  { <<"a", ",", "b">>,
    <<"a", ",", "b", ",", "c", ",", "d">>,
    <<"a", ",", "b", ",", "c", ",">>,
    <<"C", "i", "t", "y", ",", "1", "9", "9", "9">>,
    <<"H", "o", "n", "g", " ", "K", "o", "n", "g", ",",
      "1", "9", "9", "9", ",", "2", "5", ".", "7", ",">> }

Lines ==
  { c \o <<",">> \o y \o <<",">> \o t :
      c \in CityTexts, y \in YearTexts, t \in TempTexts }

Inputs == ShortTexts \cup Lines \cup OtherTexts

Digits == {"0", "1", "2", "3", "4", "5", "6", "7", "8", "9"}

DigitVal ==
  "0" :> 0 @@ "1" :> 1 @@ "2" :> 2 @@ "3" :> 3 @@ "4" :> 4 @@
  "5" :> 5 @@ "6" :> 6 @@ "7" :> 7 @@ "8" :> 8 @@ "9" :> 9

DigitChar == <<"0", "1", "2", "3", "4", "5", "6", "7", "8", "9">>

Tail2(t) == SubSeq(t, 2, Len(t))

None == <<>>

Some(x) == <<x>>

-----------------------------------------------------------------------------
(* str::is_empty and str::split                                            *)

is_empty(t) == Len(t) = 0

RECURSIVE SplitFrom(_, _, _, _)
\* scans t from position i; cur is the field being collected, every
\* delimiter closes a field and the text left at the end is the last field
SplitFrom(t, d, i, cur) ==
  IF i > Len(t) THEN <<cur>>
  ELSE IF t[i] = d THEN <<cur>> \o SplitFrom(t, d, i + 1, <<>>)
  ELSE SplitFrom(t, d, i + 1, Append(cur, t[i]))

RECURSIVE SkipEmpty(_)
SkipEmpty(fs) ==
  IF fs = <<>> THEN <<>>
  ELSE IF Head(fs) = <<>> THEN SkipEmpty(Tail(fs))
  ELSE <<Head(fs)>> \o SkipEmpty(Tail(fs))

\* a splitter that drops empty fields
split_collapsing(t, d) == SkipEmpty(SplitFrom(t, d, 1, <<>>))

split(t, d) == SplitFrom(t, d, 1, <<>>)

-----------------------------------------------------------------------------
(* u32 and str::parse::<u32>                                               *)

LimbBase == 2 ^ 16

U32Zero == <<0, 0>>

IsU32(v) ==
  /\ DOMAIN v = 1..2
  /\ v[1] \in 0..(LimbBase - 1)
  /\ v[2] \in 0..(LimbBase - 1)

\* u32::checked_mul(v, 10) followed by u32::checked_add(_, x)
CheckedMul10Add(v, x) ==
  LET lo == v[2] * 10 + x
      hi == v[1] * 10 + (lo \div LimbBase)
  IN  IF hi >= LimbBase THEN None ELSE Some(<<hi, lo % LimbBase>>)

\* the same in wrapping arithmetic
WrappingMul10Add(v, x) ==
  LET lo == v[2] * 10 + x
      hi == v[1] * 10 + (lo \div LimbBase)
  IN  <<hi % LimbBase, lo % LimbBase>>

IntOk(v) == [ok |-> TRUE, val |-> v]

IntErr(k) == [ok |-> FALSE, err |-> [kind |-> k]]

IntErrorKinds == {"Empty", "InvalidDigit", "PosOverflow"}

ParseIntErrors == { [kind |-> k] : k \in IntErrorKinds }

RECURSIVE U32Digits(_, _, _)
\* the digit loop of the conversion: a character that is no digit is
\* reported before the overflow of the same step
U32Digits(t, i, acc) ==
  IF i > Len(t) THEN IntOk(acc)
  ELSE IF t[i] \notin Digits THEN IntErr("InvalidDigit")
  ELSE LET r == CheckedMul10Add(acc, DigitVal[t[i]])
       IN  IF r = None THEN IntErr("PosOverflow")
           ELSE U32Digits(t, i + 1, r[1])

RECURSIVE U32DigitsWrapping(_, _, _)
U32DigitsWrapping(t, i, acc) ==
  IF i > Len(t) THEN IntOk(acc)
  ELSE IF t[i] \notin Digits THEN IntErr("InvalidDigit")
  ELSE U32DigitsWrapping(t, i + 1, WrappingMul10Add(acc, DigitVal[t[i]]))

RECURSIVE Trim(_)
Trim(t) ==
  IF t # <<>> /\ Head(t) = " " THEN Trim(Tail(t))
  ELSE IF t # <<>> /\ t[Len(t)] = " " THEN Trim(SubSeq(t, 1, Len(t) - 1))
  ELSE t

\* a conversion that trims surrounding blanks first
ParseU32Trimming(t) ==
  LET u == Trim(t)
  IN  IF u = <<>> THEN IntErr("Empty")
      ELSE IF Len(u) = 1 /\ u[1] \in {"+", "-"} THEN IntErr("InvalidDigit")
      ELSE IF u[1] = "+" THEN U32Digits(Tail2(u), 1, U32Zero)
      ELSE U32Digits(u, 1, U32Zero)

\* a conversion that wraps around instead of reporting the overflow
ParseU32Wrapping(t) ==
  IF t = <<>> THEN IntErr("Empty")
  ELSE IF Len(t) = 1 /\ t[1] \in {"+", "-"} THEN IntErr("InvalidDigit")
  ELSE IF t[1] = "+" THEN U32DigitsWrapping(Tail2(t), 1, U32Zero)
  ELSE U32DigitsWrapping(t, 1, U32Zero)

\* year.parse::<u32>(): base 10, no trimming; a lone sign is an invalid
\* digit, a leading "+" is skipped, and for this unsigned type a leading
\* "-" is left to the digit loop, which rejects it
ParseU32(t) ==
  IF t = <<>> THEN IntErr("Empty")
  ELSE IF Len(t) = 1 /\ t[1] \in {"+", "-"} THEN IntErr("InvalidDigit")
  ELSE IF t[1] = "+" THEN U32Digits(Tail2(t), 1, U32Zero)
  ELSE U32Digits(t, 1, U32Zero)

-----------------------------------------------------------------------------
(* f32 and str::parse::<f32>                                               *)

Upper == <<"A", "B", "C", "D", "E", "F", "G", "H", "I", "J", "K", "L", "M",
          "N", "O", "P", "Q", "R", "S", "T", "U", "V", "W", "X", "Y", "Z">>
Lower == <<"a", "b", "c", "d", "e", "f", "g", "h", "i", "j", "k", "l", "m",
          "n", "o", "p", "q", "r", "s", "t", "u", "v", "w", "x", "y", "z">>
ToLower(c) ==
  IF \E i \in 1..Len(Upper) : Upper[i] = c
  THEN Lower[CHOOSE i \in 1..Len(Upper) : Upper[i] = c]
  ELSE c

LowerText(t) == [i \in 1..Len(t) |-> ToLower(t[i])]

\* the decimal digits of 2^128 - 2^103, the least value that rounds to
\* infinity: 0.34028...e39
F32InfThreshold ==
  << 3, 4, 0, 2, 8, 2, 3, 5, 6, 7, 7, 9, 7, 3, 3, 6, 6, 1, 6, 3, 7, 5,
     3, 9, 3, 9, 5, 4, 5, 8, 1, 4, 2, 5, 6, 8, 4, 4, 8 >>
F32InfExp == Len(F32InfThreshold)

\* the decimal digits of 2^-150, the greatest value that rounds to zero:
\* 0.70064...e-45
F32ZeroThreshold ==
  << 7, 0, 0, 6, 4, 9, 2, 3, 2, 1, 6, 2, 4, 0, 8, 5, 3, 5, 4, 6, 1, 8,
     6, 4, 7, 9, 1, 6, 4, 4, 9, 5, 8, 0, 6, 5, 6, 4, 0, 1, 3, 0, 9, 7,
     0, 9, 3, 8, 2, 5, 7, 8, 8, 5, 8, 7, 8, 5, 3, 4, 1, 4, 1, 9, 4, 4,
     8, 9, 5, 5, 4, 1, 3, 4, 2, 9, 3, 0, 3, 0, 0, 7, 4, 3, 3, 1, 9, 0,
     9, 4, 1, 8, 1, 0, 6, 0, 7, 9, 1, 0, 1, 5, 6, 2, 5 >>
F32ZeroExp == 0 - 45

\* the cap on the exponent accumulated by the conversion
ExpCap == 2 ^ 16

FloatOk(v) == [ok |-> TRUE, val |-> v]

FloatErr(k) == [ok |-> FALSE, err |-> [kind |-> k]]

FloatErrorKinds == {"Empty", "Invalid"}

ParseFloatErrors == { [kind |-> k] : k \in FloatErrorKinds }

F32Classes == {"nan", "inf", "zero", "finite"}

F32Special(c, neg) == [cls |-> c, neg |-> neg, dig |-> <<>>, exp |-> 0]

RECURSIVE DigitRunEnd(_, _)
\* the position after the run of digits that starts at i
DigitRunEnd(u, i) ==
  IF i <= Len(u) /\ u[i] \in Digits THEN DigitRunEnd(u, i + 1) ELSE i

RECURSIVE ExpVal(_, _)
ExpVal(d, acc) ==
  IF d = <<>> THEN acc
  ELSE ExpVal(Tail(d), IF acc < ExpCap THEN 10 * acc + DigitVal[Head(d)] ELSE acc)

RECURSIVE StripLeadingZeros(_)
StripLeadingZeros(d) ==
  IF d # <<>> /\ Head(d) = 0 THEN StripLeadingZeros(Tail(d)) ELSE d

RECURSIVE StripTrailingZeros(_)
StripTrailingZeros(d) ==
  IF d # <<>> /\ d[Len(d)] = 0
  THEN StripTrailingZeros(SubSeq(d, 1, Len(d) - 1))
  ELSE d

RECURSIVE CmpDigits(_, _)
\* compares 0.a with 0.b: -1, 0 or 1
CmpDigits(a, b) ==
  IF a = <<>> /\ b = <<>> THEN 0
  ELSE LET x == IF a = <<>> THEN 0 ELSE Head(a)
           y == IF b = <<>> THEN 0 ELSE Head(b)
       IN  IF x < y THEN 0 - 1
           ELSE IF x > y THEN 1
           ELSE CmpDigits(IF a = <<>> THEN a ELSE Tail(a),
                          IF b = <<>> THEN b ELSE Tail(b))

\* the f32 nearest to the decimal intd.fracd * 10^exp, up to the rounding
\* of a finite value: dig and exp are the value 0.dig * 10^exp
F32FromDecimal(neg, intd, fracd, exp) ==
  LET raw  == [i \in 1..(Len(intd) + Len(fracd)) |->
                 DigitVal[(intd \o fracd)[i]]]
      lead == StripLeadingZeros(raw)
      dig  == StripTrailingZeros(lead)
      e    == exp + Len(intd) - (Len(raw) - Len(lead))
  IN  IF dig = <<>> THEN F32Special("zero", neg)
      ELSE IF \/ e > F32InfExp
              \/ e = F32InfExp /\ CmpDigits(dig, F32InfThreshold) >= 0
        THEN F32Special("inf", neg)
      ELSE IF \/ e < F32ZeroExp
              \/ e = F32ZeroExp /\ CmpDigits(dig, F32ZeroThreshold) <= 0
        THEN F32Special("zero", neg)
      ELSE [cls |-> "finite", neg |-> neg, dig |-> dig, exp |-> e]

\* parse_number: digits, an optional point and digits, at least one digit
\* in all, then an optional exponent (e or E, an optional sign, at least
\* one digit), and nothing after it
ParseNumber(u, neg) ==
  LET i1     == DigitRunEnd(u, 1)
      intd   == SubSeq(u, 1, i1 - 1)
      hasDot == i1 <= Len(u) /\ u[i1] = "."
      i2     == IF hasDot THEN DigitRunEnd(u, i1 + 1) ELSE i1
      fracd  == IF hasDot THEN SubSeq(u, i1 + 1, i2 - 1) ELSE <<>>
      hasExp == i2 <= Len(u) /\ u[i2] \in {"e", "E"}
      signed == hasExp /\ i2 + 1 <= Len(u) /\ u[i2 + 1] \in {"+", "-"}
      expNeg == signed /\ u[i2 + 1] = "-"
      i3     == IF signed THEN i2 + 2 ELSE i2 + 1
      i4     == DigitRunEnd(u, i3)
      expd   == IF i3 <= Len(u) THEN SubSeq(u, i3, i4 - 1) ELSE <<>>
      mag    == ExpVal(expd, 0)
  IN  IF Len(intd) + Len(fracd) = 0 THEN None
      ELSE IF ~hasExp
        THEN IF i2 = Len(u) + 1
             THEN Some(F32FromDecimal(neg, intd, fracd, 0))
             ELSE None
      ELSE IF expd = <<>> \/ i4 # Len(u) + 1 THEN None
      ELSE Some(F32FromDecimal(neg, intd, fracd,
                               IF expNeg THEN 0 - mag ELSE mag))

\* parse_inf_nan: the whole text is nan, inf or infinity in any case
ParseInfNan(u, neg) ==
  LET l == LowerText(u)
  IN  IF l = <<"n", "a", "n">> THEN Some(F32Special("nan", neg))
      ELSE IF l \in { <<"i", "n", "f">>,
                      <<"i", "n", "f", "i", "n", "i", "t", "y">> }
        THEN Some(F32Special("inf", neg))
      ELSE None

\* temp.parse::<f32>(): an optional sign, then a number or a special
\* token; no trimming
ParseF32(t) ==
  IF t = <<>> THEN FloatErr("Empty")
  ELSE LET neg == t[1] = "-"
           u   == IF t[1] \in {"+", "-"} THEN Tail2(t) ELSE t
       IN  IF u = <<>> THEN FloatErr("Invalid")
           ELSE LET num == ParseNumber(u, neg)
                    spc == ParseInfNan(u, neg)
                IN  IF num # None THEN FloatOk(num[1])
                    ELSE IF spc # None THEN FloatOk(spc[1])
                    ELSE FloatErr("Invalid")

\* Display for ParseFloatError
FloatErrorDisplay(e) ==
  IF e.kind = "Empty" THEN "cannot parse float from empty string"
  ELSE "invalid float literal"

\* Display for ParseIntError
IntErrorDisplay(e) ==
  CASE e.kind = "Empty" -> "cannot parse integer from empty string"
    [] e.kind = "InvalidDigit" -> "invalid digit found in string"
    [] e.kind = "PosOverflow" -> "number too large to fit in target type"

\* an equality that compares representations, so that a NaN equals itself
F32EqBitwise(a, b) == a = b

\* PartialEq for f32: a NaN equals nothing, the two zeros are equal
F32Eq(a, b) ==
  /\ a.cls # "nan"
  /\ b.cls # "nan"
  /\ \/ a = b
     \/ a.cls = "zero" /\ b.cls = "zero"

-----------------------------------------------------------------------------
(* ParseClimateError, its From conversions and its Display                 *)

Empty == [tag |-> "Empty"]

BadLen == [tag |-> "BadLen"]

NoCity == [tag |-> "NoCity"]

ParseInt(e) == [tag |-> "ParseInt", inner |-> e]

ParseFloat(e) == [tag |-> "ParseFloat", inner |-> e]

ParseClimateErrors ==
  {Empty, BadLen, NoCity}
    \cup { ParseInt(e) : e \in ParseIntErrors }
    \cup { ParseFloat(e) : e \in ParseFloatErrors }

\* a conversion that keeps the variant and forgets which failure it was
FromParseIntErrorLossy(e) == ParseInt([kind |-> "InvalidDigit"])

\* impl From<ParseIntError> for ParseClimateError
FromParseIntError(e) == ParseInt(e)

\* impl From<ParseFloatError> for ParseClimateError
FromParseFloatError(e) == ParseFloat(e)

\* a rendering that interpolates the cause of a year failure too
fmt_interpolating(e) ==
  CASE e.tag = "Empty" -> "empty input"
    [] e.tag = "BadLen" -> "incorrect number of fields"
    [] e.tag = "NoCity" -> "no city name"
    [] e.tag = "ParseInt" ->
         "error parsing year: " \o IntErrorDisplay(e.inner)
    [] e.tag = "ParseFloat" ->
         "error parsing temperature: " \o FloatErrorDisplay(e.inner)
    [] OTHER -> "unhandled error!"

\* a rendering with the arm for NoCity left out
fmt_missing_arm(e) ==
  CASE e.tag = "Empty" -> "empty input"
    [] e.tag = "BadLen" -> "incorrect number of fields"
    [] e.tag = "ParseInt" ->
         "error parsing year: invalid digit found in string"
    [] e.tag = "ParseFloat" ->
         "error parsing temperature: " \o FloatErrorDisplay(e.inner)
    [] OTHER -> "unhandled error!"

\* impl Display for ParseClimateError
fmt(e) ==
  CASE e.tag = "Empty" -> "empty input"
    [] e.tag = "BadLen" -> "incorrect number of fields"
    [] e.tag = "NoCity" -> "no city name"
    [] e.tag = "ParseInt" ->
         "error parsing year: invalid digit found in string"
    [] e.tag = "ParseFloat" ->
         "error parsing temperature: " \o FloatErrorDisplay(e.inner)
    [] OTHER -> "unhandled error!"

\* the underlying cause the error type reports.  The impl of Error for
\* ParseClimateError is commented out, and its body is empty: no variant
\* overrides the provided method, which reports no cause
source(e) == None

-----------------------------------------------------------------------------
(* Climate and its parser                                                  *)

Climate(city, year, temp) == [city |-> city, year |-> year, temp |-> temp]

Ok(v) == [ok |-> TRUE, val |-> v]

Err(e) == [ok |-> FALSE, err |-> e]

Panicked == [panicked |-> TRUE]

\* derived PartialEq for Climate: field by field
ClimateEq(a, b) ==
  /\ a.city = b.city
  /\ a.year = b.year
  /\ F32Eq(a.temp, b.temp)

\* PartialEq for Result<Climate, ParseClimateError>
ResultEq(a, b) ==
  IF a.ok /\ b.ok THEN ClimateEq(a.val, b.val)
  ELSE IF ~a.ok /\ ~b.ok THEN a.err = b.err
  ELSE FALSE

\* a parser that converts the year before it looks at the city
from_str_reordered(t) ==
  IF is_empty(t) THEN Err(Empty)
  ELSE LET splitted_item == split(t, ",")
       IN  IF Len(splitted_item) # 3 THEN Err(BadLen)
           ELSE LET city == splitted_item[1]
                    y    == ParseU32(splitted_item[2])
                    f    == ParseF32(splitted_item[3])
                IN  IF ~y.ok THEN Err(FromParseIntError(y.err))
                    ELSE IF city = <<>> THEN Err(NoCity)
                    ELSE IF ~f.ok THEN Err(FromParseFloatError(f.err))
                    ELSE Ok(Climate(city, y.val, f.val))

\* a parser that takes the fields by index, without matching the length
from_str_indexing(t) ==
  IF is_empty(t) THEN Err(Empty)
  ELSE LET splitted_item == split(t, ",")
       IN  IF Len(splitted_item) < 3 THEN Panicked
           ELSE LET city == splitted_item[1]
                    y    == ParseU32(splitted_item[2])
                    f    == ParseF32(splitted_item[3])
                IN  IF city = <<>> THEN Err(NoCity)
                    ELSE IF ~y.ok THEN Err(FromParseIntError(y.err))
                    ELSE IF ~f.ok THEN Err(FromParseFloatError(f.err))
                    ELSE Ok(Climate(city, y.val, f.val))

\* impl FromStr for Climate
from_str(t) ==
  IF is_empty(t) THEN Err(Empty)
  ELSE LET splitted_item == split(t, ",")
       IN  IF Len(splitted_item) # 3 THEN Err(BadLen)
           ELSE LET city == splitted_item[1]
                    y    == ParseU32(splitted_item[2])
                    f    == ParseF32(splitted_item[3])
                IN  IF city = <<>> THEN Err(NoCity)
                    ELSE IF ~y.ok THEN Err(FromParseIntError(y.err))
                    ELSE IF ~f.ok THEN Err(FromParseFloatError(f.err))
                    ELSE Ok(Climate(city, y.val, f.val))

-----------------------------------------------------------------------------
(* A caller: parses a text, parses it once more, and when the parse failed *)
(* renders the error and asks it for its cause                             *)

Init ==
  /\ s \in Inputs
  /\ pc = "start"
  /\ result = None
  /\ again = None
  /\ msg = None
  /\ cause = None

FromStr ==
  /\ pc = "start"
  /\ result' = Some(from_str(s))
  /\ pc' = "parsed"
  /\ UNCHANGED <<s, again, msg, cause>>

FromStrAgain ==
  /\ pc = "parsed"
  /\ again' = Some(from_str(s))
  /\ pc' = "reparsed"
  /\ UNCHANGED <<s, result, msg, cause>>

Display ==
  /\ pc = "reparsed"
  /\ ~result[1].ok
  /\ msg' = Some(fmt(result[1].err))
  /\ pc' = "rendered"
  /\ UNCHANGED <<s, result, again, cause>>

Source ==
  /\ pc = "rendered"
  /\ cause' = Some(source(result[1].err))
  /\ pc' = "done"
  /\ UNCHANGED <<s, result, again, msg>>

Next == FromStr \/ FromStrAgain \/ Display \/ Source

Spec == Init /\ [][Next]_vars

-----------------------------------------------------------------------------
(* What the claims speak of, stated on the input text itself               *)

Parsed == pc # "start"

Reparsed == pc \in {"reparsed", "rendered", "done"}

Rendered == pc \in {"rendered", "done"}

Outcome(r) == IF r.ok THEN "Ok" ELSE r.err.tag

CommaPositions(t) == { i \in 1..Len(t) : t[i] = "," }

FieldCount(t) == Cardinality(CommaPositions(t)) + 1

Min(S) == CHOOSE x \in S : \A y \in S : x <= y

Max(S) == CHOOSE x \in S : \A y \in S : x >= y

\* the three fields of a text with exactly two commas
Field1(t) == SubSeq(t, 1, Min(CommaPositions(t)) - 1)

Field2(t) == SubSeq(t, Min(CommaPositions(t)) + 1, Max(CommaPositions(t)) - 1)

Field3(t) == SubSeq(t, Max(CommaPositions(t)) + 1, Len(t))

RECURSIVE StripZeroChars(_)
StripZeroChars(d) ==
  IF Len(d) > 1 /\ Head(d) = "0" THEN StripZeroChars(Tail(d)) ELSE d

RECURSIVE LexLeq(_, _)
\* a <= b for digit texts of the same length
LexLeq(a, b) ==
  IF a = <<>> THEN TRUE
  ELSE IF DigitVal[Head(a)] # DigitVal[Head(b)]
    THEN DigitVal[Head(a)] < DigitVal[Head(b)]
  ELSE LexLeq(Tail(a), Tail(b))

U32MaxText == <<"4", "2", "9", "4", "9", "6", "7", "2", "9", "5">>

\* the digits of a year text: the text without the leading "+" that the
\* platform conversion accepts
YearDigits(y) == IF y # <<>> /\ Head(y) = "+" THEN Tail(y) ELSE y

\* base-10 unsigned integer text whose value is at most 4294967295
ValidYearText(y) ==
  LET d == YearDigits(y)
      z == StripZeroChars(d)
  IN  /\ d # <<>>
      /\ \A i \in 1..Len(d) : d[i] \in Digits
      /\ \/ Len(z) < Len(U32MaxText)
         \/ Len(z) = Len(U32MaxText) /\ LexLeq(z, U32MaxText)

RECURSIVE U32ToDecimal(_)
\* the decimal digits of a u32, most significant first
U32ToDecimal(v) ==
  LET mid == (v[1] % 10) * LimbBase + v[2]
      q   == <<v[1] \div 10, mid \div 10>>
      d   == DigitChar[(mid % 10) + 1]
  IN  IF q = U32Zero THEN <<d>> ELSE Append(U32ToDecimal(q), d)

RECURSIVE Join(_, _)
\* the fields with the delimiter d between them
Join(fs, d) ==
  IF Len(fs) = 1 THEN Head(fs)
  ELSE Head(fs) \o <<d>> \o Join(Tail(fs), d)

HongKongLine ==
  <<"H", "o", "n", "g", " ", "K", "o", "n", "g", ",",
    "1", "9", "9", "9", ",", "2", "5", ".", "7">>

\* the outcome the fixed check order gives for the text t
ExpectedOutcome(t) ==
  IF Len(t) = 0 THEN "Empty"
  ELSE IF FieldCount(t) # 3 THEN "BadLen"
  ELSE IF Field1(t) = <<>> THEN "NoCity"
  ELSE IF ~ValidYearText(Field2(t)) THEN "ParseInt"
  ELSE IF ~ParseF32(Field3(t)).ok THEN "ParseFloat"
  ELSE "Ok"

-----------------------------------------------------------------------------
(* The claims                                                              *)

\* C1: from_str surfaces the first failure in the fixed check order and
\* nothing else: Empty, else BadLen, else NoCity, else ParseInt, else
\* ParseFloat, else Ok; a text that fails several checks reports the
\* earliest one.
C1_FirstFailure ==
  Parsed => Outcome(result[1]) = ExpectedOutcome(s)

\* a text with an empty city and a malformed year has been parsed, and only
\* the missing city is reported
C1_Witness ==
  /\ Parsed
  /\ FieldCount(s) = 3
  /\ Field1(s) = <<>>
  /\ ~ValidYearText(Field2(s))
  /\ ~ParseF32(Field3(s)).ok
  /\ result[1] = Err(NoCity)

\* C2: from_str returns exactly one of Ok(record) or Err(v) with v one of
\* the five variants; never both, never neither, and never a panic or a
\* sixth outcome.
C2_ExactlyOne ==
  Parsed =>
    LET r    == result[1]
        isOk == /\ DOMAIN r = {"ok", "val"}
                /\ r.ok = TRUE
                /\ DOMAIN r.val = {"city", "year", "temp"}
                /\ IsU32(r.val.year)
                /\ r.val.temp.cls \in F32Classes
        isEr == /\ DOMAIN r = {"ok", "err"}
                /\ r.ok = FALSE
                /\ r.err \in ParseClimateErrors
    IN  (isOk \/ isEr) /\ ~(isOk /\ isEr)

\* a text with fewer than three fields has been parsed to an error value
C2_Witness ==
  /\ Parsed
  /\ s # <<>>
  /\ FieldCount(s) < 3
  /\ result[1] = Err(BadLen)

\* C3: splitting preserves empty fields: a non-empty text has (number of
\* commas) + 1 fields, which joined by commas give the text back, and
\* from_str returns BadLen exactly when that number is not three; ",," has
\* three fields, "a,b,c," has four.
C3_SplitKeepsEmptyFields ==
  (Parsed /\ s # <<>>) =>
    /\ Len(split(s, ",")) = FieldCount(s)
    /\ (result[1] = Err(BadLen)) <=> (FieldCount(s) # 3)
    /\ Join(split(s, ","), ",") = s

\* ",," has been parsed: three empty fields, so the failure is the missing
\* city and not the field count
C3_Witness ==
  /\ Parsed
  /\ s = <<",", ",">>
  /\ split(s, ",") = << <<>>, <<>>, <<>> >>
  /\ result[1] = Err(NoCity)

\* C4: whenever from_str returns Ok(r), the text is non-empty with exactly
\* three fields, r.city is the first field unchanged and non-empty, r.year
\* is the value of the second field and a u32, r.temp is the converted
\* third field, and none of the five checks fails on the text.
C4_OkOnlyWhenValid ==
  (Parsed /\ result[1].ok) =>
    LET r == result[1].val
    IN  /\ s # <<>>
        /\ FieldCount(s) = 3
        /\ r.city = Field1(s)
        /\ r.city # <<>>
        /\ ValidYearText(Field2(s))
        /\ IsU32(r.year)
        /\ U32ToDecimal(r.year) = StripZeroChars(YearDigits(Field2(s)))
        /\ ParseF32(Field3(s)).ok
        /\ r.temp = ParseF32(Field3(s)).val
        /\ ExpectedOutcome(s) = "Ok"

\* "Hong Kong,1999,25.7" has been parsed to the record (Hong Kong, 1999,
\* 25.7)
C4_Witness ==
  /\ Parsed
  /\ s = HongKongLine
  /\ result[1] =
       Ok(Climate(<<"H", "o", "n", "g", " ", "K", "o", "n", "g">>,
                  <<0, 1999>>,
                  [cls |-> "finite", neg |-> FALSE,
                   dig |-> <<2, 5, 7>>, exp |-> 2]))

C6_CauseForWrappingVariants ==
  pc = "done" =>
    LET e == result[1].err
    IN  IF e.tag \in {"ParseInt", "ParseFloat"}
        THEN cause[1] = Some(e.inner)
        ELSE cause[1] = None

\* C7: every ParseInt(inner) renders as the fixed message "error parsing
\* year: invalid digit found in string" whatever inner is; every
\* ParseFloat(inner) renders as "error parsing temperature: " followed by
\* inner's own message, so different inner messages render differently.
C7_RenderingAsymmetry ==
  /\ Rendered /\ result[1].err.tag = "ParseInt" =>
       msg[1] = "error parsing year: invalid digit found in string"
  /\ Rendered /\ result[1].err.tag = "ParseFloat" =>
       msg[1] = "error parsing temperature: "
                  \o FloatErrorDisplay(result[1].err.inner)
  /\ \A e1, e2 \in ParseIntErrors : fmt(ParseInt(e1)) = fmt(ParseInt(e2))
  /\ \A f1, f2 \in ParseFloatErrors :
       FloatErrorDisplay(f1) # FloatErrorDisplay(f2) =>
         fmt(ParseFloat(f1)) # fmt(ParseFloat(f2))

\* a year above 2^32 - 1 has been rejected and rendered with the fixed
\* message
C7_Witness ==
  /\ Rendered
  /\ result[1].err = ParseInt([kind |-> "PosOverflow"])
  /\ msg[1] = "error parsing year: invalid digit found in string"

\* C8: Empty renders as "empty input", BadLen as "incorrect number of
\* fields", NoCity as "no city name"; the messages of the five variants
\* are pairwise distinct, and no error renders as "unhandled error!".
C8_OneMessagePerVariant ==
  /\ Rendered =>
       /\ result[1].err = Empty => msg[1] = "empty input"
       /\ result[1].err = BadLen => msg[1] = "incorrect number of fields"
       /\ result[1].err = NoCity => msg[1] = "no city name"
       /\ msg[1] # "unhandled error!"
  /\ \A e1, e2 \in ParseClimateErrors :
       e1.tag # e2.tag => fmt(e1) # fmt(e2)
  /\ \A e \in ParseClimateErrors : fmt(e) # "unhandled error!"

\* a text with an empty city has been rejected and rendered
C8_Witness ==
  /\ Rendered
  /\ result[1].err = NoCity
  /\ msg[1] = "no city name"

\* C9: for a text with three fields and a non-empty city, from_str returns
\* ParseInt whenever the second field is not base-10 unsigned integer text
\* that fits in 32 bits: when it holds a decimal point, a blank, a "-", is
\* empty, or exceeds 4294967295; and a record always takes its city from
\* the first field and its year from the second.
C9_StrictYear ==
  (Parsed /\ FieldCount(s) = 3 /\ Field1(s) # <<>>) =>
    LET y == Field2(s)
    IN  /\ ~ValidYearText(y) => Outcome(result[1]) = "ParseInt"
        /\ (\/ y = <<>>
            \/ \E i \in 1..Len(y) : y[i] \in {".", " ", "-"})
             => Outcome(result[1]) = "ParseInt"
        /\ result[1].ok =>
             /\ ValidYearText(y)
             /\ result[1].val.city = Field1(s)
             /\ U32ToDecimal(result[1].val.year)
                  = StripZeroChars(YearDigits(y))

\* "City,25.7,1999", the year and the temperature swapped, has been
\* rejected at the year
C9_Witness ==
  /\ Parsed
  /\ s = <<"C", "i", "t", "y", ",", "2", "5", ".", "7", ",",
           "1", "9", "9", "9">>
  /\ result[1] = Err(ParseInt([kind |-> "InvalidDigit"]))

\* C10: the failure of the integer conversion is wrapped as ParseInt and
\* that of the float conversion as ParseFloat, each retained unchanged; so
\* the wrapping is injective, and an integer failure is never wrapped as
\* ParseFloat nor a float failure as ParseInt.
C10_LosslessWrapping ==
  /\ (Parsed /\ FieldCount(s) = 3 /\ Field1(s) # <<>>) =>
       LET y == ParseU32(Field2(s))
           f == ParseF32(Field3(s))
       IN  /\ ~y.ok => result[1] = Err(ParseInt(y.err))
           /\ (y.ok /\ ~f.ok) => result[1] = Err(ParseFloat(f.err))
  /\ \A e \in ParseIntErrors :
       FromParseIntError(e).tag = "ParseInt" /\ FromParseIntError(e).inner = e
  /\ \A f \in ParseFloatErrors :
       /\ FromParseFloatError(f).tag = "ParseFloat"
       /\ FromParseFloatError(f).inner = f
  /\ \A e1, e2 \in ParseIntErrors :
       FromParseIntError(e1) = FromParseIntError(e2) => e1 = e2
  /\ \A f1, f2 \in ParseFloatErrors :
       FromParseFloatError(f1) = FromParseFloatError(f2) => f1 = f2
  /\ \A e \in ParseIntErrors, f \in ParseFloatErrors :
       FromParseIntError(e) # FromParseFloatError(f)

\* the year text "4294967296" has been rejected, and the error holds the
\* overflow, not the invalid digit that "abc" gives
C10_Witness ==
  /\ Parsed
  /\ FieldCount(s) = 3
  /\ Field1(s) # <<>>
  /\ Field2(s) = <<"4", "2", "9", "4", "9", "6", "7", "2", "9", "6">>
  /\ result[1] = Err(ParseInt([kind |-> "PosOverflow"]))
  /\ result[1] # Err(FromParseIntError(ParseU32(<<"a", "b", "c">>).err))

=============================================================================
